---- MODULE Spec2Model ----
(***************************************************************************)
(* The link shortener of src/routes/link_shortner.rs: the four axum        *)
(* handlers redirect, create_link, update_link and get_link_statistics     *)
(* over the relations links and link_statistics.                           *)
(*                                                                         *)
(* Strings that the code parses or encodes (URLs, ids) are sequences of    *)
(* one-character strings, so that Url::parse and the base64 encoding are   *)
(* computed character by character.  Every handler runs on a task; a task  *)
(* yields at each .await, and a statement sent to the datastore takes      *)
(* effect atomically.                                                      *)
(***************************************************************************)
EXTENDS Integers, Sequences, FiniteSets, Bags, TLC

\* ------------------------------------------------------------- bounds

\* The most rows link_statistics holds in the model.
MaxStats == 2

\* The request tasks that run concurrently.
Tasks == {"t1", "t2"}

\* ------------------------------------------------------------ strings

UpperCase ==
    <<"A","B","C","D","E","F","G","H","I","J","K","L","M",
      "N","O","P","Q","R","S","T","U","V","W","X","Y","Z">>

LowerCase ==
    <<"a","b","c","d","e","f","g","h","i","j","k","l","m",
      "n","o","p","q","r","s","t","u","v","w","x","y","z">>

Digits == <<"0","1","2","3","4","5","6","7","8","9">>

IsUpper(c) == \E i \in 1..26 : UpperCase[i] = c

IsAlpha(c) == \E i \in 1..26 : UpperCase[i] = c \/ LowerCase[i] = c

IsDigit(c) == \E i \in 1..10 : Digits[i] = c

ToAsciiLower(c) ==
    IF IsUpper(c) THEN LowerCase[CHOOSE i \in 1..26 : UpperCase[i] = c] ELSE c

LowerSeq(s) == [i \in 1..Len(s) |-> ToAsciiLower(s[i])]

\* ---------------------------------------------------------- Url::parse

\* The schemes the URL standard calls special (file, whose host may be
\* empty, is left out: no input of the model uses it).
SpecialSchemes ==
    { <<"h","t","t","p">>, <<"h","t","t","p","s">>, <<"w","s">>,
      <<"w","s","s">>, <<"f","t","p">> }

IsSchemeChar(c) == IsAlpha(c) \/ IsDigit(c) \/ c \in {"+", "-", "."}

\* The position of the first ":" of s, 0 when it has none.
ColonAt(s) ==
    IF \E i \in 1..Len(s) : s[i] = ":"
    THEN CHOOSE i \in 1..Len(s) : s[i] = ":" /\ \A j \in 1..(i - 1) : s[j] # ":"
    ELSE 0

\* s starts with a scheme: a letter, then letters, digits, + - . up to ":".
\* Without one the parser has no base URL to resolve against and fails.
HasScheme(s) ==
    /\ ColonAt(s) > 1
    /\ IsAlpha(s[1])
    /\ \A j \in 2..(ColonAt(s) - 1) : IsSchemeChar(s[j])

\* How many "/" s starts with.
LeadingSlashes(s) ==
    CHOOSE k \in 0..Len(s) :
        /\ \A j \in 1..k : s[j] = "/"
        /\ (k = Len(s) \/ s[k + 1] # "/")

\* Where the authority of s ends: the first "/", "?" or "#", or Len(s) + 1.
AuthorityEnd(s) ==
    IF \E i \in 1..Len(s) : s[i] \in {"/", "?", "#"}
    THEN CHOOSE i \in 1..Len(s) :
            /\ s[i] \in {"/", "?", "#"}
            /\ \A j \in 1..(i - 1) : s[j] \notin {"/", "?", "#"}
    ELSE Len(s) + 1

\* Url::parse that keeps the host as written (no lower-casing).
UrlParse_KeepHostCase(s) ==
    IF ~HasScheme(s) THEN [ok |-> FALSE, url |-> <<>>]
    ELSE
      LET scheme == LowerSeq(SubSeq(s, 1, ColonAt(s) - 1))
          rest   == SubSeq(s, ColonAt(s) + 1, Len(s))
          after  == SubSeq(rest, LeadingSlashes(rest) + 1, Len(rest))
          host   == SubSeq(after, 1, AuthorityEnd(after) - 1)
          tail   == SubSeq(after, AuthorityEnd(after), Len(after))
      IN IF scheme \notin SpecialSchemes
         THEN [ok |-> TRUE, url |-> scheme \o <<":">> \o rest]
         ELSE IF host = <<>> THEN [ok |-> FALSE, url |-> <<>>]
         ELSE [ok |-> TRUE,
               url |-> scheme \o <<":", "/", "/">> \o host
                       \o (IF tail = <<>> THEN <<"/">> ELSE tail)]

\* Url::parse that accepts a special scheme with an empty host.
UrlParse_AllowEmptyHost(s) ==
    IF ~HasScheme(s) THEN [ok |-> FALSE, url |-> <<>>]
    ELSE
      LET scheme == LowerSeq(SubSeq(s, 1, ColonAt(s) - 1))
          rest   == SubSeq(s, ColonAt(s) + 1, Len(s))
          after  == SubSeq(rest, LeadingSlashes(rest) + 1, Len(rest))
          host   == SubSeq(after, 1, AuthorityEnd(after) - 1)
          tail   == SubSeq(after, AuthorityEnd(after), Len(after))
      IN IF scheme \notin SpecialSchemes
         THEN [ok |-> TRUE, url |-> scheme \o <<":">> \o rest]
         ELSE [ok |-> TRUE,
               url |-> scheme \o <<":", "/", "/">> \o LowerSeq(host)
                       \o (IF tail = <<>> THEN <<"/">> ELSE tail)]

\* Url::parse(s) followed by to_string(): Err for a string that is no
\* absolute URL, else the URL serialized in its normal form (scheme and
\* host in lower case, the empty path of a special scheme as "/").  The
\* authority is a host alone (no userinfo, no port).
UrlParse(s) ==
    IF ~HasScheme(s) THEN [ok |-> FALSE, url |-> <<>>]
    ELSE
      LET scheme == LowerSeq(SubSeq(s, 1, ColonAt(s) - 1))
          rest   == SubSeq(s, ColonAt(s) + 1, Len(s))
      IN IF scheme \notin SpecialSchemes
         THEN [ok |-> TRUE, url |-> scheme \o <<":">> \o rest]
         ELSE
           LET after == SubSeq(rest, LeadingSlashes(rest) + 1, Len(rest))
               host  == SubSeq(after, 1, AuthorityEnd(after) - 1)
               tail  == SubSeq(after, AuthorityEnd(after), Len(after))
               path  == IF tail # <<>> /\ tail[1] = "/" THEN tail
                        ELSE <<"/">> \o tail
           IN IF host = <<>> THEN [ok |-> FALSE, url |-> <<>>]
              ELSE [ok |-> TRUE,
                    url |-> scheme \o <<":", "/", "/">> \o LowerSeq(host) \o path]

\* --------------------------------------------------------- generate_id

\* The draws of rand::thread_rng().gen_range(0..u32::MAX) the model takes:
\* of one and of two decimal digits, two of the tail cases of base64.
Draws == {0, 42}

RECURSIVE ToDecimal(_)
\* random_number.to_string(): the decimal digits of n, as ASCII codes.
ToDecimal(n) ==
    IF n < 10 THEN <<48 + n>> ELSE ToDecimal(n \div 10) \o <<48 + (n % 10)>>

\* The alphabet of general_purpose::URL_SAFE_NO_PAD.
UrlSafeAlphabet ==
    UpperCase \o LowerCase \o Digits \o <<"-", "_">>

Sextet(v) == UrlSafeAlphabet[v + 1]

RECURSIVE EncodeNoPad(_)
\* URL_SAFE_NO_PAD.encode(bytes): three bytes make four characters, a tail
\* of one byte makes two and a tail of two makes three; no "=" is added.
EncodeNoPad(b) ==
    IF Len(b) = 0 THEN <<>>
    ELSE IF Len(b) = 1 THEN
        << Sextet(b[1] \div 4), Sextet((b[1] % 4) * 16) >>
    ELSE IF Len(b) = 2 THEN
        << Sextet(b[1] \div 4),
           Sextet((b[1] % 4) * 16 + (b[2] \div 16)),
           Sextet((b[2] % 16) * 4) >>
    ELSE
        << Sextet(b[1] \div 4),
           Sextet((b[1] % 4) * 16 + (b[2] \div 16)),
           Sextet((b[2] % 16) * 4 + (b[3] \div 64)),
           Sextet(b[3] % 64) >> \o EncodeNoPad(SubSeq(b, 4, Len(b)))

generate_id(random_number) == EncodeNoPad(ToDecimal(random_number))

\* ------------------------------------------------------------- inputs

\* "HTTP://A.b": upper-case scheme and host, no path.
UrlUpper == <<"H","T","T","P",":","/","/","A",".","b">>

\* "http://a.b/X": already in normal form; the path keeps its case.
UrlPath == <<"h","t","t","p",":","/","/","a",".","b","/","X">>

\* "a.b/X": no scheme, so no absolute URL.
UrlNoScheme == <<"a",".","b","/","X">>

\* "http://": a special scheme with an empty host.
UrlEmptyHost == <<"h","t","t","p",":","/","/">>

\* The targetUrl values of the JSON bodies (LinkTarget).
TargetUrls == {UrlUpper, UrlPath, UrlNoScheme, UrlEmptyHost}

\* Url::parse of each body.
Parsed == [u \in TargetUrls |-> UrlParse(u)]

\* generate_id of each draw.
IdOf == [n \in Draws |-> generate_id(n)]

\* An id no draw encodes to.
UnknownId == <<"x">>

\* The ids of the request paths.
PathIds == {IdOf[n] : n \in Draws} \cup {UnknownId}

\* A header of the request: absent, text, or bytes that to_str() rejects.
NoHeader == [present |-> FALSE, text |-> TRUE, value |-> ""]

TextHeader(v) == [present |-> TRUE, text |-> TRUE, value |-> v]

OpaqueHeader == [present |-> TRUE, text |-> FALSE, value |-> "?"]

\* The HeaderMap values of the requests.
HeaderMaps ==
    { [referer |-> NoHeader, user_agent |-> NoHeader],
      [referer |-> TextHeader("r"), user_agent |-> OpaqueHeader] }

\* ------------------------------------------------------------ the state

VARIABLES
    links,             \* the relation links(id, target_url): a set of rows
    link_statistics,   \* the relation link_statistics: a bag of rows
    pc,                \* each task's position in redirect: idle, lookup, insert
    requested_link,    \* redirect's path id, per task
    link,              \* redirect's local link: the row its lookup found
    acked,             \* history: per id, the Link of the last 200 of create_link
                       \* or update_link, while no later UPDATE changed the row
    recorded           \* history: per id, the statistic inserts that took effect

vars ==
    <<links, link_statistics, pc, requested_link, link, acked, recorded>>

DEFAULT_CACHE_CONTROL_HEADER_VALUE ==
    "public, max-age=300, s-maxage=300, state-while-revalidate=300, stale-if-error=300"

NoLink == [id |-> <<>>, target_url |-> <<>>]

NoAck == [op |-> "none", target_url |-> <<>>]

\* ------------------------------------------------------------ datastore

\* What a statement answers the handler: Ok, a database error, or nothing
\* before the 1000 ms of tokio::time::timeout are over.  After a timeout the
\* statement may still run to completion in the datastore.
WriteOutcomes == {"ok", "err", "elapsed", "elapsed_applied"}

ReadOutcomes == {"ok", "err", "elapsed"}

\* The lookup of redirect has no timeout: it is answered, or it waits.
LookupOutcomes == {"ok", "err"}

\* A handler that rejects its body sends no statement.
StatementOutcomes(target_url) ==
    IF Parsed[target_url].ok THEN WriteOutcomes ELSE {"unsent"}

\* The statement took effect in the datastore.
Applied(outcome) == outcome \in {"ok", "elapsed_applied"}

\* The handler got no answer within the timeout.
Elapsed(outcome) == outcome \in {"elapsed", "elapsed_applied"}

ElapsedText == "deadline has elapsed"

DatabaseErrorText == "error communicating with database"

RowNotFoundText ==
    "no rows returned by a query that expected to return at least one row"

UniqueViolationText ==
    "error returned from database: UNIQUE constraint failed: links.id"

\* links.id is the primary key: a row with this id is stored already.
PrimaryKeyViolation(rel, id) == \E r \in rel : r.id = id

\* The select without its where clause.
SelectFromLinks_NoWhere(rel, id) == rel

\* select id, target_url from links where id = $1
SelectFromLinks(rel, id) == {r \in rel : r.id = id}

\* INSERT OR REPLACE: a stored row with this id is overwritten.
InsertIntoLinks_Replace(rel, id, url) ==
    {r \in rel : r.id # id} \cup {[id |-> id, target_url |-> url]}

\* INSERT INTO links (id, target_url) VALUES ($1, $2): the relation after.
InsertIntoLinks(rel, id, url) ==
    IF PrimaryKeyViolation(rel, id) THEN rel
    ELSE rel \cup {[id |-> id, target_url |-> url]}

\* The update without its where clause: every row gets the target_url.
UpdateLinks_NoWhere(rel, url, id) ==
    {[r EXCEPT !.target_url = url] : r \in rel}

\* An upsert: the row is inserted when no row has this id.
UpdateLinks_Upsert(rel, url, id) ==
    {r \in rel : r.id # id} \cup {[id |-> id, target_url |-> url]}

\* update links set target_url = $1 where id = $2: the relation after.
UpdateLinks(rel, url, id) ==
    {IF r.id = id THEN [r EXCEPT !.target_url = url] ELSE r : r \in rel}

\* ... returning id, target_url: the rows the update returns.
UpdateReturning(rel, url, id) ==
    {[r EXCEPT !.target_url = url] : r \in {x \in rel : x.id = id}}

\* An insert keyed by link_id: the new row replaces the rows of this link.
InsertIntoLinkStatistics_Replace(rel, id, referer, user_agent) ==
    LET kept == {x \in BagToSet(rel) : x.link_id # id}
    IN [x \in kept |-> CopiesIn(x, rel)]
       (+) SetToBag({[link_id |-> id, referer |-> referer,
                      user_agent |-> user_agent]})

\* insert into link_statistics(link_id, referer, user_agent) values($1,$2,$3)
InsertIntoLinkStatistics(rel, id, referer, user_agent) ==
    rel (+) SetToBag({[link_id |-> id, referer |-> referer,
                       user_agent |-> user_agent]})

\* The grouped count without its having clause: the groups of every link.
SelectFromLinkStatistics_NoHaving(rel, id) ==
    {[amount |-> CopiesIn(g, rel), referer |-> g.referer,
      user_agent |-> g.user_agent] : g \in BagToSet(rel)}

\* select count(*) as amount, referer, user_agent from link_statistics
\* group by link_id, referer, user_agent having link_id = $1
SelectFromLinkStatistics(rel, id) ==
    {[amount |-> CopiesIn(g, rel), referer |-> g.referer,
      user_agent |-> g.user_agent] :
        g \in {x \in BagToSet(rel) : x.link_id = id}}

\* ------------------------------------------------------------ handlers

\* utils::internal_error: any error becomes a 500 with its text as body.
internal_error(text) == [status |-> 500, body |-> text]

\* headers.get(name).map(|value| value.to_str().unwrap_or_default().to_string()):
\* None for an absent header, "" for a value that is no visible ASCII.
\* An Option<String> is a sequence of at most one string.
HeaderText(h) ==
    IF ~h.present THEN <<>> ELSE IF h.text THEN <<h.value>> ELSE <<"">>

\* redirect up to and including the ? of its lookup: the link found and, when
\* the handler returns there, its response.
redirect_lookup(rel, id, answer) ==
    LET rows == SelectFromLinks(rel, id) IN
    IF answer = "err" THEN
        [returns |-> TRUE, link |-> NoLink,
         resp |-> internal_error(DatabaseErrorText)]
    ELSE IF rows = {} THEN
        [returns |-> TRUE, link |-> NoLink,
         resp |-> [status |-> 404, body |-> "Not Found"]]
    ELSE
        [returns |-> FALSE, link |-> CHOOSE r \in rows : TRUE,
         resp |-> [status |-> 0]]

\* redirect with a ? on the insert: a failed or timed-out insert is a 500.
redirect_insert_Propagating(rel, id, hs, found, outcome) ==
    [link_statistics |->
        IF Applied(outcome)
        THEN InsertIntoLinkStatistics(rel, id, HeaderText(hs.referer),
                                      HeaderText(hs.user_agent))
        ELSE rel,
     saved_statistics |->
        IF Elapsed(outcome) THEN "Err(elapsed)"
        ELSE IF outcome = "err" THEN "Ok(Err(err))" ELSE "Ok(Ok)",
     resp |-> IF Elapsed(outcome) THEN internal_error(ElapsedText)
              ELSE IF outcome = "err" THEN internal_error(DatabaseErrorText)
              ELSE [status |-> 307, Location |-> found.target_url,
                    CacheControl |-> DEFAULT_CACHE_CONTROL_HEADER_VALUE,
                    body |-> ""]]

\* redirect after its lookup: the insert under the timeout, the match on
\* saved_statistics that only logs, and the response.
redirect_insert(rel, id, hs, found, outcome) ==
    [link_statistics |->
        IF Applied(outcome)
        THEN InsertIntoLinkStatistics(rel, id, HeaderText(hs.referer),
                                      HeaderText(hs.user_agent))
        ELSE rel,
     saved_statistics |->
        IF Elapsed(outcome) THEN "Err(elapsed)"
        ELSE IF outcome = "err" THEN "Ok(Err(err))" ELSE "Ok(Ok)",
     resp |-> [status |-> 307, Location |-> found.target_url,
               CacheControl |-> DEFAULT_CACHE_CONTROL_HEADER_VALUE,
               body |-> ""]]

\* create_link: the relation after it and its response.  statements counts
\* the statements it sent to the datastore.
create_link(rel, target_url, random_number, outcome) ==
    IF ~Parsed[target_url].ok THEN
        [links |-> rel, statements |-> 0,
         resp |-> [status |-> 409, body |-> "url malformed"]]
    ELSE
        LET url == Parsed[target_url].url
            new_link_id == IdOf[random_number]
        IN [links |-> IF Applied(outcome)
                      THEN InsertIntoLinks(rel, new_link_id, url) ELSE rel,
            statements |-> 1,
            resp |->
               IF Elapsed(outcome) THEN internal_error(ElapsedText)
               ELSE IF outcome = "err" THEN internal_error(DatabaseErrorText)
               ELSE IF PrimaryKeyViolation(rel, new_link_id)
                    THEN internal_error(UniqueViolationText)
               ELSE [status |-> 200,
                     body |-> [id |-> new_link_id, target_url |-> url]]]

\* update_link: the relation after it and its response.
update_link(rel, link_id, target_url, outcome) ==
    IF ~Parsed[target_url].ok THEN
        [links |-> rel, statements |-> 0,
         resp |-> [status |-> 409, body |-> "Url malformed"]]
    ELSE
        LET url == Parsed[target_url].url
            rows == UpdateReturning(rel, url, link_id)
        IN [links |-> IF Applied(outcome)
                      THEN UpdateLinks(rel, url, link_id) ELSE rel,
            statements |-> 1,
            resp |->
               IF Elapsed(outcome) THEN internal_error(ElapsedText)
               ELSE IF outcome = "err" THEN internal_error(DatabaseErrorText)
               ELSE IF rows = {} THEN internal_error(RowNotFoundText)
               ELSE [status |-> 200, body |-> CHOOSE r \in rows : TRUE]]

\* get_link_statistics awaiting its query without tokio::time::timeout: while
\* the datastore is silent there is no response (status 0).
get_link_statistics_NoTimeout(rel, link_id, outcome) ==
    IF outcome = "elapsed" THEN [status |-> 0]
    ELSE IF outcome = "err" THEN internal_error(DatabaseErrorText)
    ELSE [status |-> 200, body |-> SelectFromLinkStatistics(rel, link_id)]

\* get_link_statistics: its response.
get_link_statistics(rel, link_id, outcome) ==
    IF outcome = "elapsed" THEN internal_error(ElapsedText)
    ELSE IF outcome = "err" THEN internal_error(DatabaseErrorText)
    ELSE [status |-> 200, body |-> SelectFromLinkStatistics(rel, link_id)]

\* ------------------------------------------------------- the transitions

Init ==
    /\ links = {}
    /\ link_statistics = EmptyBag
    /\ pc = [t \in Tasks |-> "idle"]
    /\ requested_link = [t \in Tasks |-> <<>>]
    /\ link = [t \in Tasks |-> NoLink]
    /\ acked = [i \in PathIds |-> NoAck]
    /\ recorded = [i \in PathIds |-> 0]

\* A GET for a link arrives: redirect starts on task t and sends its lookup.
RedirectRequest(t) ==
    /\ pc[t] = "idle"
    /\ \E id \in PathIds : requested_link' = [requested_link EXCEPT ![t] = id]
    /\ pc' = [pc EXCEPT ![t] = "lookup"]
    /\ UNCHANGED <<links, link_statistics, link, acked, recorded>>

\* The datastore answers the lookup: redirect returns 404 or 500, or goes on
\* to the insert.
RedirectLookup(t) ==
    /\ pc[t] = "lookup"
    /\ \E answer \in LookupOutcomes :
        LET r == redirect_lookup(links, requested_link[t], answer) IN
        /\ link' = [link EXCEPT ![t] = r.link]
        /\ pc' = [pc EXCEPT ![t] = IF r.returns THEN "idle" ELSE "insert"]
    /\ UNCHANGED <<links, link_statistics, requested_link, acked, recorded>>

\* redirect reads the request's headers (first read here, so drawn here), the
\* insert ends (answered or timed out) and redirect returns its 307.
RedirectInsert(t) ==
    /\ pc[t] = "insert"
    /\ \E hs \in HeaderMaps, outcome \in WriteOutcomes :
        LET r == redirect_insert(link_statistics, requested_link[t], hs,
                                 link[t], outcome) IN
        /\ Applied(outcome) => BagCardinality(link_statistics) < MaxStats
        /\ link_statistics' = r.link_statistics
        /\ recorded' = IF Applied(outcome)
                       THEN [recorded EXCEPT ![requested_link[t]] = @ + 1]
                       ELSE recorded
    /\ pc' = [pc EXCEPT ![t] = "idle"]
    /\ link' = [link EXCEPT ![t] = NoLink]
    /\ UNCHANGED <<links, requested_link, acked>>

\* A POST arrives and create_link runs: one statement, so one step.
CreateLink ==
    \E target_url \in TargetUrls, random_number \in Draws :
    \E outcome \in StatementOutcomes(target_url) :
        LET r == create_link(links, target_url, random_number, outcome) IN
        /\ links' = r.links
        /\ acked' = IF r.resp.status = 200
                    THEN [acked EXCEPT ![r.resp.body.id] =
                            [op |-> "create_link",
                             target_url |-> r.resp.body.target_url]]
                    ELSE acked
        /\ UNCHANGED <<link_statistics, pc, requested_link, link, recorded>>

\* A PUT arrives and update_link runs: one statement, so one step.
UpdateLink ==
    \E link_id \in PathIds, target_url \in TargetUrls :
    \E outcome \in StatementOutcomes(target_url) :
        LET r == update_link(links, link_id, target_url, outcome) IN
        /\ links' = r.links
        /\ acked' = IF r.resp.status = 200
                    THEN [acked EXCEPT ![link_id] =
                            [op |-> "update_link",
                             target_url |-> r.resp.body.target_url]]
                    ELSE IF r.links # links
                    THEN [acked EXCEPT ![link_id] = NoAck]
                    ELSE acked
        /\ UNCHANGED <<link_statistics, pc, requested_link, link, recorded>>

\* A GET for the statistics arrives and get_link_statistics runs: it reads only.
GetLinkStatistics ==
    /\ \E link_id \in PathIds, outcome \in ReadOutcomes :
        get_link_statistics(link_statistics, link_id, outcome).status \in {200, 500}
    /\ UNCHANGED vars

Next ==
    \/ \E t \in Tasks : RedirectRequest(t)
    \/ \E t \in Tasks : RedirectLookup(t)
    \/ \E t \in Tasks : RedirectInsert(t)
    \/ CreateLink
    \/ UpdateLink
    \/ GetLinkStatistics

Spec == Init /\ [][Next]_vars

\* The insert of redirect runs under tokio::time::timeout, so it ends within
\* 1000 ms whatever the datastore does; the lookup has no timeout and ends
\* only when the datastore answers it.
FairSpec == Spec /\ \A t \in Tasks : WF_vars(RedirectInsert(t))

\* ------------------------------------------------- terms of the claims

\* The ids of the stored links.
Keys(rel) == {r.id : r \in rel}

\* The bodies that are absolute URLs, with the normal form of each written
\* out ("HTTP://A.b" is "http://a.b/"), and the bodies that are none.
AbsoluteUrls == {UrlUpper, UrlPath}

NormalForm ==
    (UrlUpper :> <<"h","t","t","p",":","/","/","a",".","b","/">>)
    @@ (UrlPath :> UrlPath)

NotAbsolute == {UrlNoScheme, UrlEmptyHost}

\* How many rows of link_statistics have this link_id.
RowsOf(rel, id) ==
    LET S == {x \in BagToSet(rel) : x.link_id = id}
        count[T \in SUBSET S] ==
            IF T = {} THEN 0
            ELSE LET x == CHOOSE y \in T : TRUE
                 IN CopiesIn(x, rel) + count[T \ {x}]
    IN count[S]

\* The sum of the amounts of a statistics response.
SumOfAmounts(entries) ==
    LET count[T \in SUBSET entries] ==
            IF T = {} THEN 0
            ELSE LET x == CHOOSE y \in T : TRUE
                 IN x.amount + count[T \ {x}]
    IN count[entries]

\* Every character of the id is of the URL-safe alphabet.
IsUrlSafeToken(id) ==
    /\ Len(id) > 0
    /\ \A i \in 1..Len(id) : \E k \in 1..64 : UrlSafeAlphabet[k] = id[i]

\* ---------------------------------------------------------------- C1

\* create_link of a valid body: what the claim says of its response.
C1_CreateAnswers200(r, u, n) ==
    /\ r.resp.status = 200
    /\ r.resp.body.target_url = NormalForm[u]
    /\ r.resp.body.id = IdOf[n]
    /\ IsUrlSafeToken(r.resp.body.id)
    /\ r.resp.body \in r.links

\* C1 as stated: for every valid absolute URL U, create_link(U) answers 200
\* with a Link whose target_url is the normal form of U and whose id is not
\* empty; and in every later state in which no update of that id took effect,
\* redirect(id) answers 307 with Location equal to that target_url.
C1_Original ==
    /\ \A u \in AbsoluteUrls, n \in Draws, outcome \in WriteOutcomes :
          C1_CreateAnswers200(create_link(links, u, n, outcome), u, n)
    /\ \A id \in PathIds : acked[id].op = "create_link" =>
          /\ \A answer \in LookupOutcomes :
                LET l == redirect_lookup(links, id, answer)
                IN ~l.returns /\ l.link.target_url = acked[id].target_url
          /\ \A t \in Tasks, hs \in HeaderMaps, outcome \in WriteOutcomes :
                pc[t] = "insert" /\ requested_link[t] = id =>
                LET r == redirect_insert(link_statistics, id, hs, link[t], outcome)
                IN r.resp.status = 307 /\ r.resp.Location = acked[id].target_url

\* C1, amended: for every valid absolute URL U, create_link(U) answers 200
\* exactly when its insert is answered Ok (the id drawn is not stored yet and
\* the datastore answers in time), and then with a Link whose target_url is
\* the normal form of U, whose id is a non-empty URL-safe token and which is
\* stored; and in every later state in which no update of that id took
\* effect, a redirect(id) whose lookup the datastore answers responds 307 with
\* Location equal to that target_url.
C1_CreateThenRedirect ==
    /\ \A u \in AbsoluteUrls, n \in Draws, outcome \in WriteOutcomes :
          LET r == create_link(links, u, n, outcome) IN
          IF outcome = "ok" /\ IdOf[n] \notin Keys(links)
          THEN C1_CreateAnswers200(r, u, n)
          ELSE r.resp.status # 200
    /\ \A id \in PathIds : acked[id].op = "create_link" =>
          /\ LET l == redirect_lookup(links, id, "ok")
             IN ~l.returns /\ l.link.target_url = acked[id].target_url
          /\ \A t \in Tasks, hs \in HeaderMaps, outcome \in WriteOutcomes :
                pc[t] = "insert" /\ requested_link[t] = id =>
                LET r == redirect_insert(link_statistics, id, hs, link[t], outcome)
                IN r.resp.status = 307 /\ r.resp.Location = acked[id].target_url

\* A redirect is past its lookup of a link that create_link answered with a
\* normal form other than the body it was given, while another link is
\* stored and statistics were recorded in between.
C1_Witness ==
    \E t \in Tasks :
        /\ pc[t] = "insert"
        /\ acked[requested_link[t]] =
              [op |-> "create_link", target_url |-> NormalForm[UrlUpper]]
        /\ Cardinality(links) = 2
        /\ link_statistics # EmptyBag

\* ---------------------------------------------------------------- C2

\* C2 as stated: redirect(id) for an id that is no key of links answers 404
\* with body "Not Found"; it appends no row and leaves both relations as
\* they are.
C2_Original ==
    /\ [](\A id \in PathIds \ Keys(links), answer \in LookupOutcomes :
            LET l == redirect_lookup(links, id, answer)
            IN l.returns /\ l.resp.status = 404 /\ l.resp.body = "Not Found")
    /\ [][\A t \in Tasks :
            pc[t] = "lookup" /\ pc'[t] = "idle" =>
                UNCHANGED <<links, link_statistics>>]_vars

\* C2, amended: a redirect(id) for an id that is no key of links returns at
\* its lookup without going on to the insert, so it appends no row and leaves
\* both relations as they are; when the datastore answers the lookup, the
\* response is 404 with body "Not Found".
C2_UnknownIdNotFound ==
    /\ [](\A id \in PathIds \ Keys(links), answer \in LookupOutcomes :
            LET l == redirect_lookup(links, id, answer)
            IN /\ l.returns
               /\ answer = "ok" =>
                     l.resp.status = 404 /\ l.resp.body = "Not Found")
    /\ [][\A t \in Tasks :
            pc[t] = "lookup" /\ pc'[t] = "idle" =>
                UNCHANGED <<links, link_statistics>>]_vars

\* A redirect waits for the lookup of an id that is no key of links, while
\* links are stored.
C2_Witness ==
    \E t \in Tasks :
        /\ pc[t] = "lookup"
        /\ requested_link[t] \notin Keys(links)
        /\ links # {}

\* ---------------------------------------------------------------- C3

\* C3: for every string S that is no absolute URL, create_link(S) and
\* update_link(id, S) answer 409 and send no statement to the datastore:
\* links is left as it is, also when the id given to update_link is stored.
C3_MalformedIs409 ==
    \A s \in NotAbsolute :
        /\ \A n \in Draws, outcome \in StatementOutcomes(s) :
              LET r == create_link(links, s, n, outcome)
              IN r.resp.status = 409 /\ r.statements = 0 /\ r.links = links
        /\ \A id \in PathIds, outcome \in StatementOutcomes(s) :
              LET r == update_link(links, id, s, outcome)
              IN r.resp.status = 409 /\ r.statements = 0 /\ r.links = links

\* Links and statistics are stored, so an update_link with a malformed body
\* can name a stored id.
C3_Witness ==
    /\ Cardinality(links) = 2
    /\ link_statistics # EmptyBag
    /\ \A s \in NotAbsolute : update_link(links, IdOf[0], s, "unsent").resp.status = 409

\* ---------------------------------------------------------------- C4

\* C4: once the lookup of redirect found the link, the outcome of the
\* statistics insert never shows in the response: whether the insert is
\* answered Ok, answered with an error or times out, the response is 307 with
\* Location equal to the target_url the lookup found; the handler responds
\* only after the insert ended (a found link never returns at the lookup, and
\* saved_statistics holds the insert's result when the response is built).
C4_InsertNeverAffectsResponse ==
    /\ \A id \in Keys(links) : ~redirect_lookup(links, id, "ok").returns
    /\ \A t \in Tasks : pc[t] = "insert" =>
          \A hs \in HeaderMaps, outcome \in WriteOutcomes :
             LET r == redirect_insert(link_statistics, requested_link[t], hs,
                                      link[t], outcome)
             IN /\ r.resp.status = 307
                /\ r.resp.Location = link[t].target_url
                /\ r.resp.CacheControl = DEFAULT_CACHE_CONTROL_HEADER_VALUE
                /\ r.saved_statistics =
                      IF outcome = "ok" THEN "Ok(Ok)"
                      ELSE IF outcome = "err" THEN "Ok(Err(err))"
                      ELSE "Err(elapsed)"

\* A redirect is past its lookup and an update_link changed the link since:
\* the Location will be what the lookup found.
C4_Witness ==
    \E t \in Tasks :
        /\ pc[t] = "insert"
        /\ link[t] \notin links
        /\ link_statistics # EmptyBag

\* ---------------------------------------------------------------- C5

\* update_link of a stored id with a valid body, answered Ok: the response
\* and the relation the claim describes.
C5_UpdateAnswers200(r, id, v) ==
    /\ r.resp.status = 200
    /\ r.resp.body = [id |-> id, target_url |-> NormalForm[v]]
    /\ r.resp.body \in r.links
    /\ \A row \in links : row.id # id => row \in r.links
    /\ Keys(r.links) = Keys(links)

\* C5 as stated: after update_link(id, V) answered 200 for a stored id and a
\* valid V, the response carries the id and the normal form of V, every later
\* redirect(id) answers 307 with Location equal to it until the next update
\* of that id takes effect, and the update changes no other link and no row
\* of link_statistics.
C5_Original ==
    /\ [](\A id \in Keys(links), v \in AbsoluteUrls :
            C5_UpdateAnswers200(update_link(links, id, v, "ok"), id, v))
    /\ [](\A id \in PathIds : acked[id].op = "update_link" =>
            \A answer \in LookupOutcomes :
               LET l == redirect_lookup(links, id, answer)
               IN ~l.returns /\ l.link.target_url = acked[id].target_url)
    /\ [](\A t \in Tasks, hs \in HeaderMaps, outcome \in WriteOutcomes :
            pc[t] = "insert" =>
               LET r == redirect_insert(link_statistics, requested_link[t], hs,
                                        link[t], outcome)
               IN r.resp.status = 307 /\ r.resp.Location = link[t].target_url)
    /\ [][links' # links => link_statistics' = link_statistics]_vars

\* C5, amended: after update_link(id, V) answered 200 for a stored id and a
\* valid V, the response carries the id and the normal form of V; until the
\* next update of that id takes effect, every later redirect(id) whose lookup
\* the datastore answers finds that target_url and responds 307 with Location
\* equal to what its lookup found; the update changes no other link and no
\* row of link_statistics.
C5_UpdateThenRedirect ==
    /\ [](\A id \in Keys(links), v \in AbsoluteUrls :
            C5_UpdateAnswers200(update_link(links, id, v, "ok"), id, v))
    /\ [](\A id \in PathIds : acked[id].op = "update_link" =>
            LET l == redirect_lookup(links, id, "ok")
            IN ~l.returns /\ l.link.target_url = acked[id].target_url)
    /\ [](\A t \in Tasks, hs \in HeaderMaps, outcome \in WriteOutcomes :
            pc[t] = "insert" =>
               LET r == redirect_insert(link_statistics, requested_link[t], hs,
                                        link[t], outcome)
               IN r.resp.status = 307 /\ r.resp.Location = link[t].target_url)
    /\ [][links' # links => link_statistics' = link_statistics]_vars

\* A redirect found the target_url that the last update_link answered with,
\* while another link with another target_url and statistics are stored.
C5_Witness ==
    \E t \in Tasks :
        /\ pc[t] = "insert"
        /\ acked[requested_link[t]].op = "update_link"
        /\ link[t].target_url = acked[requested_link[t]].target_url
        /\ \E other \in links : other.target_url # link[t].target_url
        /\ link_statistics # EmptyBag

\* ---------------------------------------------------------------- C6

\* The entries of a statistics response for id are the groups of
\* link_statistics: one entry per distinct (referer, user_agent) among the
\* rows with this link_id, its amount the number of those rows.
C6_IsGroupedCount(entries, id) ==
    /\ \A e \in entries :
          /\ e.amount > 0
          /\ e.amount = CopiesIn([link_id |-> id, referer |-> e.referer,
                                  user_agent |-> e.user_agent], link_statistics)
    /\ \A x \in BagToSet(link_statistics) : x.link_id = id =>
          Cardinality({e \in entries : e.referer = x.referer
                                       /\ e.user_agent = x.user_agent}) = 1
    /\ SumOfAmounts(entries) = recorded[id]
    /\ recorded[id] = 0 => entries = {}

\* C6 as stated: in every reachable state get_link_statistics(id) answers 200
\* with one entry per distinct (referer, user_agent) pair among the rows with
\* link_id = id, each amount the number of such rows, the amounts summing to
\* the number of rows redirect recorded for id; the list is empty for an id
\* with no rows, stored or not.
C6_Original ==
    \A id \in PathIds, outcome \in ReadOutcomes :
        LET r == get_link_statistics(link_statistics, id, outcome)
        IN r.status = 200 /\ C6_IsGroupedCount(r.body, id)

\* C6, amended: in every reachable state a get_link_statistics(id) whose
\* query the datastore answers within the timeout answers 200 with one entry
\* per distinct (referer, user_agent) pair among the rows with link_id = id,
\* each amount the number of such rows, the amounts summing to the number of
\* rows redirect recorded for id; the list is empty for an id with no rows,
\* stored or not.
C6_StatisticsAreGroupedCounts ==
    \A id \in PathIds :
        LET r == get_link_statistics(link_statistics, id, "ok")
        IN r.status = 200 /\ C6_IsGroupedCount(r.body, id)

\* Two redirects of one link were recorded with the same headers (an amount
\* of 2), and a stored link has no row.
C6_Witness ==
    /\ \E id \in PathIds :
          \E e \in get_link_statistics(link_statistics, id, "ok").body : e.amount = 2
    /\ \E id \in Keys(links) : recorded[id] = 0

\* ---------------------------------------------------------------- C7

\* What C7 says of the rows: no insert is lost or overwritten (the rows of an
\* id are the inserts that took effect), and a step adds at most one row,
\* which is the insert of one redirect of that id, and removes none.
C7_RowsAreTheInserts ==
    /\ [](\A id \in PathIds : RowsOf(link_statistics, id) = recorded[id])
    /\ [][link_statistics' # link_statistics =>
            /\ link_statistics \sqsubseteq link_statistics'
            /\ BagCardinality(link_statistics') = BagCardinality(link_statistics) + 1
            /\ \E t \in Tasks :
                  /\ pc[t] = "insert" /\ pc'[t] = "idle"
                  /\ RowsOf(link_statistics', requested_link[t])
                        = RowsOf(link_statistics, requested_link[t]) + 1]_vars

\* Every redirect past its lookup answers 307, whatever its insert does.
C7_InsertAnswers307 ==
    \A t \in Tasks, hs \in HeaderMaps, outcome \in WriteOutcomes :
        pc[t] = "insert" =>
            redirect_insert(link_statistics, requested_link[t], hs,
                            link[t], outcome).resp.status = 307

\* C7 as stated: under any interleaving of two concurrent redirect(id) of one
\* stored link, also with an update_link in between, both answer 307 and each
\* adds at most one row: the rows of id grow by the inserts that took effect.
C7_Original ==
    /\ [](\A t \in Tasks, answer \in LookupOutcomes :
            pc[t] = "lookup" /\ requested_link[t] \in Keys(links) =>
                ~redirect_lookup(links, requested_link[t], answer).returns)
    /\ []C7_InsertAnswers307
    /\ C7_RowsAreTheInserts

\* C7, amended: under any interleaving of two concurrent redirect(id) of one
\* stored link, also with an update_link in between, each call whose lookup
\* the datastore answers responds 307, and each call adds at most one row:
\* the rows of id grow by the inserts that took effect.
C7_ConcurrentRedirects ==
    /\ [](\A t \in Tasks :
            pc[t] = "lookup" /\ requested_link[t] \in Keys(links) =>
                ~redirect_lookup(links, requested_link[t], "ok").returns)
    /\ []C7_InsertAnswers307
    /\ C7_RowsAreTheInserts

\* Two redirects of the same link are past their lookups, an update_link took
\* effect between the two lookups, and a row of that link is stored already.
C7_Witness ==
    \E t, u \in Tasks :
        /\ t # u
        /\ pc[t] = "insert" /\ pc[u] = "insert"
        /\ requested_link[t] = requested_link[u]
        /\ link[t] # link[u]
        /\ recorded[requested_link[t]] = 1

\* ---------------------------------------------------------------- C8

\* C8 as stated: update_link(id, V) with a valid V and an id that is no key
\* of links answers 500, stores no link for that id and leaves links as it
\* is; a later redirect(id) still answers 404.
C8_Original ==
    \A id \in PathIds \ Keys(links), v \in AbsoluteUrls, outcome \in WriteOutcomes :
        LET r == update_link(links, id, v, outcome)
        IN /\ r.resp.status = 500
           /\ r.links = links
           /\ \A answer \in LookupOutcomes :
                 LET l == redirect_lookup(r.links, id, answer)
                 IN l.returns /\ l.resp.status = 404

\* C8, amended: update_link(id, V) with a valid V and an id that is no key of
\* links answers 500, stores no link for that id and leaves links as it is; a
\* later redirect(id) whose lookup the datastore answers still answers 404.
C8_UpdateOfUnknownIdIs500 ==
    \A id \in PathIds \ Keys(links), v \in AbsoluteUrls, outcome \in WriteOutcomes :
        LET r == update_link(links, id, v, outcome)
            l == redirect_lookup(r.links, id, "ok")
        IN /\ r.resp.status = 500
           /\ r.statements = 1
           /\ outcome = "ok" => r.resp.body = RowNotFoundText
           /\ r.links = links
           /\ l.returns /\ l.resp.status = 404

\* One link is stored and the other id a draw encodes to is not.
C8_Witness ==
    /\ Cardinality(links) = 1
    /\ \E n \in Draws : IdOf[n] \notin Keys(links)
    /\ link_statistics # EmptyBag

\* ---------------------------------------------------------------- C9

\* C9 as stated: every operation answers in the end, even if the datastore
\* never answers a statement, the lookup of redirect included.  (The three
\* other handlers are one step each; a redirect is pending from its request
\* to its response.)
C9_EveryOperationResponds ==
    \A t \in Tasks : (pc[t] # "idle") ~> (pc[t] = "idle")

\* C9, amended: every statement of create_link, update_link and
\* get_link_statistics and the statistics insert of redirect suspends the
\* task only until the datastore answers or the 1000 ms timeout fires, so
\* these produce a response even if the datastore never answers (a 500 that
\* carries the timeout's error, and for redirect its 307); the lookup at the
\* start of redirect has no timeout, so a redirect is sure to respond only
\* once the datastore answered its lookup.
C9_BoundedStatementsRespond ==
    /\ [](\A u \in AbsoluteUrls, n \in Draws, outcome \in WriteOutcomes :
            Elapsed(outcome) =>
                create_link(links, u, n, outcome).resp = internal_error(ElapsedText))
    /\ [](\A id \in PathIds, u \in AbsoluteUrls, outcome \in WriteOutcomes :
            Elapsed(outcome) =>
                update_link(links, id, u, outcome).resp = internal_error(ElapsedText))
    /\ [](\A id \in PathIds, outcome \in ReadOutcomes :
            Elapsed(outcome) =>
                get_link_statistics(link_statistics, id, outcome)
                    = internal_error(ElapsedText))
    /\ [](\A t \in Tasks, hs \in HeaderMaps, outcome \in WriteOutcomes :
            pc[t] = "insert" /\ Elapsed(outcome) =>
                LET r == redirect_insert(link_statistics, requested_link[t], hs,
                                         link[t], outcome)
                IN r.saved_statistics = "Err(elapsed)" /\ r.resp.status = 307)
    /\ \A t \in Tasks : (pc[t] = "insert") ~> (pc[t] = "idle")

\* One redirect waits for its insert and another for the lookup of a stored
\* link, while statistics are stored.
C9_Witness ==
    \E t, u \in Tasks :
        /\ pc[t] = "insert"
        /\ pc[u] = "lookup"
        /\ requested_link[u] \in Keys(links)
        /\ link_statistics # EmptyBag

\* --------------------------------------------------------------- C10

====
